---- MODULE Spec2Model ----
(***************************************************************************)
(* Model of the tree-order utilities (class Utility), of the JSON writer    *)
(* (class JSONWriterImpl) and of the processing-instruction node (class    *)
(* ProcessingInstructionImpl) of xmlbuilder2.                              *)
(*                                                                         *)
(* The node graph is a forest over a fixed set of node identities: two     *)
(* documents and MaxElems other nodes.  Each node has an ordered list of   *)
(* children (childNodes) and a reference to its owner document.            *)
(***************************************************************************)
EXTENDS Integers, Sequences, FiniteSets, TLC

\* ------------------------------------------------------------------------
\* Bounds
\* ------------------------------------------------------------------------
MaxElems == 3
MaxNameLen == 3
MaxSize == 4
MaxOffset == 1
MaxPIs == 3

\* ------------------------------------------------------------------------
\* Node graph
\* ------------------------------------------------------------------------
Null == 0
Docs == {1, 2}
Elems == 3..(2 + MaxElems)
Nodes == Docs \cup Elems

VARIABLES childNodes, ownerDocument, call, stack, visited, pending, fedRoot,
          nameCall, jsonCall, piNodes, piCall

treeVars == <<childNodes, ownerDocument>>
fedVars == <<stack, visited, pending, fedRoot>>
piVars == <<piNodes, piCall>>
writerVars == <<nameCall, jsonCall, piVars>>
vars == <<childNodes, ownerDocument, call, stack, visited, pending, fedRoot,
          nameCall, jsonCall, piNodes, piCall>>

\* The ascending sequence of the members of a set of nodes.
RECURSIVE SortedSeq(_)
SortedSeq(S) ==
  IF S = {} THEN <<>>
  ELSE LET m == CHOOSE x \in S : \A y \in S : x <= y
       IN <<m>> \o SortedSeq(S \ {m})

RECURSIVE RootOf(_, _, _)
\* The topmost node other than a document above n (n itself if n has no
\* parent or a document as its parent).
RootOf(par, n, fuel) ==
  IF par[n] \notin Elems \/ fuel = 0 THEN n ELSE RootOf(par, par[n], fuel - 1)

\* par is a forest: no node is its own ancestor.
IsForest(par) ==
  \A e \in Elems : par[RootOf(par, e, MaxElems + 1)] \notin Elems

\* The owner documents that agree with the tree: a node under a document is
\* owned by it, and the nodes of a detached subtree have the owner of its
\* root, rootOwner; a document has no owner.
OwnersAgree(par, rootOwner) ==
  [n \in Nodes |->
     IF n \in Docs THEN Null
     ELSE LET r == RootOf(par, n, MaxElems + 1)
          IN IF par[r] \in Docs THEN par[r] ELSE rootOwner[r]]

\* The trees tried: the children of a node are in ascending order of
\* identity, which leaves every shape of tree to be had by naming the nodes.
TreeInit ==
  \E par \in [Elems -> Nodes \cup {Null}], rootOwner \in [Elems -> Docs] :
    /\ IsForest(par)
    /\ childNodes = [n \in Nodes |-> SortedSeq({e \in Elems : par[e] = n})]
    /\ ownerDocument = OwnersAgree(par, rootOwner)

\* ------------------------------------------------------------------------
\* Utility.isDescendantOf / Utility.isAncestorOf
\* ------------------------------------------------------------------------
\* A slip of isDescendantOf: the children are compared, their subtrees are not
\* searched.
isDescendantOfFrom_Shallow(node, other, i) ==
  \E j \in i..Len(childNodes[node]) : childNodes[node][j] = other

RECURSIVE isDescendantOfFrom(_, _, _)
\* The for loop of isDescendantOf, from child index i on.
isDescendantOfFrom(node, other, i) ==
  IF i > Len(childNodes[node]) THEN FALSE
  ELSE LET child == childNodes[node][i]
       IN IF child = other THEN TRUE
          ELSE IF isDescendantOfFrom(child, other, 1) THEN TRUE
          ELSE isDescendantOfFrom(node, other, i + 1)

isDescendantOf(node, other) == isDescendantOfFrom(node, other, 1)

isAncestorOf(node, other) == isDescendantOf(other, node)

\* ------------------------------------------------------------------------
\* Utility.treePosition
\* ------------------------------------------------------------------------
\* The callback treePosition hands to forEachDescendant: it counts the call
\* and remembers whether the node was seen; it returns nothing (falsy).
treePositionVisit(st, childNode, node) ==
  [pos |-> st.pos + 1,
   found |-> IF ~st.found /\ childNode = node THEN TRUE ELSE st.found]

RECURSIVE treePositionWalk(_, _, _, _)
\* forEachDescendant(root, callback) with the callback above, from child
\* index i on.  The callback is never truthy, so the walk is never cut short.
treePositionWalk(root, node, i, st) ==
  IF i > Len(childNodes[root]) THEN st
  ELSE LET child == childNodes[root][i]
           st1 == treePositionVisit(st, child, node)
           st2 == treePositionWalk(child, node, 1, st1)
       IN treePositionWalk(root, node, i + 1, st2)

treePosition(root, node) ==
  IF root = Null THEN -1
  ELSE LET st == treePositionWalk(root, node, 1, [pos |-> 0, found |-> FALSE])
       IN IF st.found THEN st.pos ELSE -1

\* ------------------------------------------------------------------------
\* Utility.isPreceding / Utility.isFollowing
\* ------------------------------------------------------------------------
isPreceding(node, other) ==
  LET nodePos == treePosition(ownerDocument[node], node)
      otherPos == treePosition(ownerDocument[other], other)
  IN IF nodePos = -1 \/ otherPos = -1 THEN FALSE ELSE otherPos < nodePos

\* A slip of isFollowing: equal positions count as following.
isFollowing_GE(node, other) ==
  LET nodePos == treePosition(ownerDocument[node], node)
      otherPos == treePosition(ownerDocument[other], other)
  IN IF nodePos = -1 \/ otherPos = -1 THEN FALSE ELSE otherPos >= nodePos

isFollowing(node, other) ==
  LET nodePos == treePosition(ownerDocument[node], node)
      otherPos == treePosition(ownerDocument[other], other)
  IN IF nodePos = -1 \/ otherPos = -1 THEN FALSE ELSE otherPos > nodePos

\* ------------------------------------------------------------------------
\* Calls of the pure utilities: the arguments and the value returned.
\* ------------------------------------------------------------------------
\* call is empty until one of the utilities has been called on the tree; no
\* call is made while a traversal by forEachDescendant is under way.
Idle == call = <<>> /\ fedRoot = Null

CallTreePosition ==
  /\ Idle
  /\ \E root \in Nodes \cup {Null}, node \in Nodes :
       /\ call' = <<[op |-> "treePosition", a |-> root, b |-> node,
                     res |-> treePosition(root, node)]>>
       /\ UNCHANGED <<treeVars, fedVars, writerVars>>

CallIsPreceding ==
  /\ Idle
  /\ \E node \in Nodes, other \in Nodes :
       /\ call' = <<[op |-> "isPreceding", a |-> node, b |-> other,
                     res |-> isPreceding(node, other)]>>
       /\ UNCHANGED <<treeVars, fedVars, writerVars>>

CallIsFollowing ==
  /\ Idle
  /\ \E node \in Nodes, other \in Nodes :
       /\ call' = <<[op |-> "isFollowing", a |-> node, b |-> other,
                     res |-> isFollowing(node, other)]>>
       /\ UNCHANGED <<treeVars, fedVars, writerVars>>

CallIsDescendantOf ==
  /\ Idle
  /\ \E node \in Nodes, other \in Nodes :
       /\ call' = <<[op |-> "isDescendantOf", a |-> node, b |-> other,
                     res |-> isDescendantOf(node, other)]>>
       /\ UNCHANGED <<treeVars, fedVars, writerVars>>

CallIsAncestorOf ==
  /\ Idle
  /\ \E node \in Nodes, other \in Nodes :
       /\ call' = <<[op |-> "isAncestorOf", a |-> node, b |-> other,
                     res |-> isAncestorOf(node, other)]>>
       /\ UNCHANGED <<treeVars, fedVars, writerVars>>

\* ------------------------------------------------------------------------
\* Utility.forEachDescendant, one step per call of the visitor
\* ------------------------------------------------------------------------
\* What a visitor may return: two falsy and two truthy values.
FuncResults == {"undefined", "false", "true", "hit"}
Truthy(v) == v \notin {"undefined", "false"}

Top == stack[Len(stack)]
Pop == SubSeq(stack, 1, Len(stack) - 1)

\* forEachDescendant(node, func) is entered: the loop is at the first child.
FEDCall ==
  /\ Idle
  /\ \E node \in Nodes :
       /\ fedRoot' = node
       /\ stack' = <<[node |-> node, i |-> 1]>>
  /\ visited' = <<>>
  /\ pending' = "none"
  /\ UNCHANGED <<treeVars, call, writerVars>>

\* A slip of forEachDescendant: the result of func is ignored and the
\* traversal always goes on into the child.
FEDVisit_NoShortCircuit ==
  /\ stack # <<>>
  /\ pending = "none"
  /\ stack[Len(stack)].i <= Len(childNodes[stack[Len(stack)].node])
  /\ LET child == childNodes[stack[Len(stack)].node][stack[Len(stack)].i]
     IN \E res \in FuncResults :
          /\ visited' = Append(visited, [node |-> child, res |-> res])
          /\ pending' = "none"
          /\ stack' = Append(stack, [node |-> child, i |-> 1])
  /\ UNCHANGED <<treeVars, call, fedRoot, writerVars>>

\* func(child) is called; a truthy result is returned at once, otherwise the
\* traversal recurses into the child.
FEDVisit ==
  /\ stack # <<>>
  /\ pending = "none"
  /\ Top.i <= Len(childNodes[Top.node])
  /\ LET child == childNodes[Top.node][Top.i]
     IN \E res \in FuncResults :
          /\ visited' = Append(visited, [node |-> child, res |-> res])
          /\ IF Truthy(res)
             THEN /\ pending' = res
                  /\ stack' = Pop
             ELSE /\ pending' = "none"
                  /\ stack' = Append(stack, [node |-> child, i |-> 1])
  /\ UNCHANGED <<treeVars, call, fedRoot, writerVars>>

\* The loop of the innermost activation is exhausted: it returns undefined
\* and its caller goes on with the next child.
FEDExhaust ==
  /\ stack # <<>>
  /\ pending = "none"
  /\ Top.i > Len(childNodes[Top.node])
  /\ IF Len(stack) = 1
     THEN /\ stack' = <<>>
          /\ pending' = "undefined"
     ELSE /\ stack' = [Pop EXCEPT ![Len(stack) - 1].i = @ + 1]
          /\ pending' = "none"
  /\ UNCHANGED <<treeVars, call, fedRoot, visited, writerVars>>

\* A truthy result of the recursive call is returned by the caller too.
FEDPropagate ==
  /\ stack # <<>>
  /\ pending # "none"
  /\ stack' = Pop
  /\ UNCHANGED <<treeVars, call, fedRoot, visited, pending, writerVars>>

\* ------------------------------------------------------------------------
\* Strings.  A string is a sequence of pieces of text: single characters,
\* and the words "xml", "xmlns", "lang" and "local" written as one piece.  No
\* piece begins with "n", so two different sequences never spell the same
\* string.
\* ------------------------------------------------------------------------
NamePieces == {"xmlns", "xml", "lang", "local", "p", ":", "1"}
QualifiedNames == UNION {[1..k -> NamePieces] : k \in 1..MaxNameLen}

\* null, where the source has string | null.
None == <<>>
Some(v) == <<v>>

\* DOMImplementation.Namespace
XML == <<"http://www.w3.org/XML/1998/namespace">>
XMLNS == <<"http://www.w3.org/2000/xmlns/">>
\* The namespace arguments tried: null, the empty string, the two fixed
\* namespaces and another one.
NamespaceArgs == {None, Some(<<>>), Some(XML), Some(XMLNS), Some(<<"urn:x">>)}

\* String.prototype.split(':'): the pieces of text between the colons.
RECURSIVE SplitColon(_, _, _)
SplitColon(str, i, cur) ==
  IF i > Len(str) THEN <<cur>>
  ELSE IF str[i] = ":" THEN <<cur>> \o SplitColon(str, i + 1, <<>>)
  ELSE SplitColon(str, i + 1, Append(cur, str[i]))

split(str) == SplitColon(str, 1, <<>>)

\* Utility.validateQName: the name matches Name (it does not begin with a
\* digit) and QName (one or two colon-separated parts, each a non-empty name
\* that does not begin with a digit).
validateQName(qualifiedName) ==
  LET parts == split(qualifiedName)
  IN IF /\ qualifiedName # <<>>
        /\ qualifiedName[1] # "1"
        /\ Len(parts) \in {1, 2}
        /\ \A k \in 1..Len(parts) : parts[k] # <<>> /\ parts[k][1] # "1"
     THEN "ok"
     ELSE "InvalidCharacterError"

Thrown(err) ==
  [error |-> err, namespace |-> None, prefix |-> None, localName |-> <<>>]

\* A slip of extractNames: the name "xmlns" without a prefix is not checked
\* against the XMLNS namespace.
extractNamesChecks_NoBareXmlns(namespace, qualifiedName, prefix, localName) ==
  IF prefix # None /\ prefix # Some(<<>>) /\ namespace = None
  THEN Thrown("NamespaceError")
  ELSE IF prefix = Some(<<"xml">>) /\ namespace # Some(XML)
  THEN Thrown("NamespaceError")
  ELSE IF namespace # Some(XMLNS) /\ prefix = Some(<<"xmlns">>)
  THEN Thrown("NamespaceError")
  ELSE IF namespace = Some(XMLNS) /\
          (prefix # Some(<<"xmlns">>) /\ qualifiedName # <<"xmlns">>)
  THEN Thrown("NamespaceError")
  ELSE [error |-> "none", namespace |-> namespace, prefix |-> prefix,
        localName |-> localName]

\* The checks of extractNames after the name has been validated and split.
extractNamesChecks(namespace, qualifiedName, prefix, localName) ==
  IF prefix # None /\ prefix # Some(<<>>) /\ namespace = None
  THEN Thrown("NamespaceError")
  ELSE IF prefix = Some(<<"xml">>) /\ namespace # Some(XML)
  THEN Thrown("NamespaceError")
  ELSE IF namespace # Some(XMLNS) /\
          (prefix = Some(<<"xmlns">>) \/ qualifiedName = <<"xmlns">>)
  THEN Thrown("NamespaceError")
  ELSE IF namespace = Some(XMLNS) /\
          (prefix # Some(<<"xmlns">>) /\ qualifiedName # <<"xmlns">>)
  THEN Thrown("NamespaceError")
  ELSE [error |-> "none", namespace |-> namespace, prefix |-> prefix,
        localName |-> localName]

extractNames(namespaceArg, qualifiedName) ==
  LET namespace == IF namespaceArg = None \/ namespaceArg = Some(<<>>)
                   THEN None ELSE namespaceArg
  IN IF validateQName(qualifiedName) # "ok"
     THEN Thrown(validateQName(qualifiedName))
     ELSE LET parts == split(qualifiedName)
              prefix == IF Len(parts) = 2 THEN Some(parts[1]) ELSE None
              localName == IF Len(parts) = 2 THEN parts[2] ELSE qualifiedName
          IN extractNamesChecks(namespace, qualifiedName, prefix, localName)

CallExtractNames ==
  /\ nameCall = <<>>
  /\ \E namespace \in NamespaceArgs, qualifiedName \in QualifiedNames :
       /\ nameCall' = <<[namespace |-> namespace, qualifiedName |-> qualifiedName,
                         res |-> extractNames(namespace, qualifiedName)]>>
       /\ UNCHANGED <<treeVars, call, fedVars, jsonCall, piVars>>

\* ------------------------------------------------------------------------
\* XMLSerializedValue: a string, a sequence of values, or an ordered map from
\* keys to values (keys[i] is the key of items[i]).
\* ------------------------------------------------------------------------
Scalars == {<<"1">>}
Keys == {"a", "b"}

Str(s) == [kind |-> "str", str |-> s, keys |-> <<>>, items |-> <<>>]
Arr(l) == [kind |-> "array", str |-> <<>>, keys |-> <<>>, items |-> l]
Map(ks, l) == [kind |-> "map", str |-> <<>>, keys |-> ks, items |-> l]

isArray(obj) == obj.kind = "array"
isMap(obj) == obj.kind = "map"

\* The sequences of k different keys.
KeySeqs(k) ==
  {ks \in [1..k -> Keys] : \A i, j \in 1..k : ks[i] = ks[j] => i = j}

RECURSIVE ValuesOfSize(_), ListsOfSize(_)
\* The values made of exactly n strings, sequences and maps.
ValuesOfSize(n) ==
  (IF n = 1 THEN {Str(s) : s \in Scalars} ELSE {})
    \cup {Arr(l) : l \in ListsOfSize(n - 1)}
    \cup UNION {{Map(ks, l) : ks \in KeySeqs(Len(l))} :
                  l \in {m \in ListsOfSize(n - 1) : Len(m) <= Cardinality(Keys)}}
\* The sequences of values that are made of n strings, sequences and maps.
ListsOfSize(n) ==
  IF n = 0 THEN {<<>>}
  ELSE UNION {{<<v>> \o l : v \in ValuesOfSize(k), l \in ListsOfSize(n - k)} :
                k \in 1..n}

Values == UNION {ValuesOfSize(n) : n \in 1..MaxSize}

\* JSONWriterOptions, defaults applied.
OptionSets ==
  [prettyPrint : BOOLEAN,
   indent : {<<" ", " ">>, <<"\t">>},
   newline : {<<"\n">>, <<"\r", "\n">>},
   offset : (-1)..MaxOffset]

\* ------------------------------------------------------------------------
\* JSONWriterImpl
\* ------------------------------------------------------------------------
RECURSIVE ArrayJoin(_, _)
\* new Array(n).join(sep): n empty elements with sep between neighbours.
ArrayJoin(n, sep) == IF n <= 1 THEN <<>> ELSE sep \o ArrayJoin(n - 1, sep)

\* A slip of _beginLine: the offset is left out of the indentation level.
beginLine_NoOffset(options, level) ==
  IF ~options.prettyPrint THEN <<>>
  ELSE LET indentLevel == level + 1
       IN IF indentLevel > 0 THEN ArrayJoin(indentLevel, options.indent)
          ELSE <<>>

beginLine(options, level) ==
  IF ~options.prettyPrint THEN <<>>
  ELSE LET indentLevel == options.offset + level + 1
       IN IF indentLevel > 0 THEN ArrayJoin(indentLevel, options.indent)
          ELSE <<>>

\* A slip of _endLine: the newline is written whether or not prettyPrint is on.
endLine_Always(options, level) == options.newline

endLine(options, level) ==
  IF ~options.prettyPrint THEN <<>> ELSE options.newline

RECURSIVE descendantCount(_, _), descendantCountLoop(_, _, _)
\* The for loops of _descendantCount: count += _descendantCount(val, count).
descendantCountLoop(items, i, count) ==
  IF i > Len(items) THEN count
  ELSE descendantCountLoop(items, i + 1,
                           count + descendantCount(items[i], count))

\* _descendantCount(obj, count); a missing count is 0.
descendantCount(obj, count) ==
  IF isArray(obj) THEN descendantCountLoop(obj.items, 1, count)
  ELSE IF isMap(obj) THEN descendantCountLoop(obj.items, 1, count)
  ELSE count + 1

isLeafNode(obj) == descendantCount(obj, 0) <= 1

\* What precedes an entry of a map.
entryLead(isLeaf, options, level) ==
  IF isLeaf /\ options.prettyPrint THEN <<" ">>
  ELSE endLine(options, level + 1) \o beginLine(options, level + 1)

\* A slip of _serializeObject: no space is written after the colon.
keyPrefix_NoSpace(key, options) == <<"\"", key, "\"", ":">>

\* '"' + key + '":' and, when pretty-printing, a space.
keyPrefix(key, options) ==
  <<"\"", key, "\"", ":">> \o (IF options.prettyPrint THEN <<" ">> ELSE <<>>)

\* What precedes the closing brace of a map.
mapClose(isLeaf, options, level) ==
  IF isLeaf /\ options.prettyPrint THEN <<" ">>
  ELSE endLine(options, level) \o beginLine(options, level)

RECURSIVE serializeObject(_, _, _), serializeArrayLoop(_, _, _, _),
          serializeMapLoop(_, _, _, _, _)
\* The for loop over the elements of a sequence, from element i on.
serializeArrayLoop(obj, i, options, level) ==
  IF i > Len(obj.items) THEN <<>>
  ELSE endLine(options, level + 1) \o beginLine(options, level + 1)
         \o serializeObject(obj.items[i], options, level + 1)
         \o (IF i < Len(obj.items) THEN <<",">> ELSE <<>>)
         \o serializeArrayLoop(obj, i + 1, options, level)

\* The for loop over the entries of a map, from entry i on.
serializeMapLoop(obj, i, isLeaf, options, level) ==
  IF i > Len(obj.items) THEN <<>>
  ELSE entryLead(isLeaf, options, level)
         \o keyPrefix(obj.keys[i], options)
         \o serializeObject(obj.items[i], options, level + 1)
         \o (IF i < Len(obj.items) THEN <<",">> ELSE <<>>)
         \o serializeMapLoop(obj, i + 1, isLeaf, options, level)

serializeObject(obj, options, level) ==
  LET isLeaf == isLeafNode(obj)
  IN IF isArray(obj)
     THEN <<"[">> \o serializeArrayLoop(obj, 1, options, level)
            \o endLine(options, level) \o beginLine(options, level)
            \o <<"]">>
     ELSE IF isMap(obj)
     THEN <<"{">> \o serializeMapLoop(obj, 1, isLeaf, options, level)
            \o mapClose(isLeaf, options, level)
            \o <<"}">>
     ELSE <<"\"">> \o obj.str \o <<"\"">>

\* JSONWriterImpl.serialize, from the value the map writer has produced.
serialize(obj, options) ==
  beginLine(options, 0) \o serializeObject(obj, options, 0)

CallSerialize ==
  /\ jsonCall = <<>>
  /\ \E obj \in Values, options \in OptionSets :
       /\ jsonCall' = <<[obj |-> obj, options |-> options,
                         markup |-> serialize(obj, options)]>>
       /\ UNCHANGED <<treeVars, call, fedVars, nameCall, piVars>>

\* ------------------------------------------------------------------------
\* ProcessingInstructionImpl.  piNodes holds the processing instructions made
\* so far; a node is known by its place in piNodes.
\* ------------------------------------------------------------------------
PITargets == {"t1", "t2"}
\* data is a string or null.
PIData == {None, Some("d")}
PIOwners == {Null, 1}

\* new ProcessingInstructionImpl(ownerDocument, target, data)
ProcessingInstructionImpl(owner, target, data) ==
  [ownerDocument |-> owner, target |-> target, data |-> data]

\* A slip of cloneNode: the data is not handed to the copy.
cloneNode_NoData(this, deep) ==
  ProcessingInstructionImpl(this.ownerDocument, this.target, None)

cloneNode(this, deep) ==
  ProcessingInstructionImpl(this.ownerDocument, this.target, this.data)

\* CharacterDataImpl.isEqualNode: the other node is of the same kind and has
\* the same data.
characterDataIsEqualNode(this, node) == this.data = node.data

\* isEqualNode(node?): node is None when no node is given.
isEqualNode(this, node) ==
  IF node = None \/ ~characterDataIsEqualNode(this, node[1]) THEN FALSE
  ELSE this.target = node[1].target

NewPI ==
  /\ Len(piNodes) < MaxPIs
  /\ \E owner \in PIOwners, target \in PITargets, data \in PIData :
       piNodes' = Append(piNodes, ProcessingInstructionImpl(owner, target, data))
  /\ piCall' = <<>>
  /\ UNCHANGED <<treeVars, call, fedVars, nameCall, jsonCall>>

\* p.cloneNode(deep): the copy is a new node.
ClonePI ==
  /\ Len(piNodes) < MaxPIs
  /\ \E p \in 1..Len(piNodes), deep \in BOOLEAN :
       /\ piNodes' = Append(piNodes, cloneNode(piNodes[p], deep))
       /\ piCall' = <<[op |-> "cloneNode", p |-> p, deep |-> deep,
                       node |-> Null, res |-> Len(piNodes) + 1]>>
  /\ UNCHANGED <<treeVars, call, fedVars, nameCall, jsonCall>>

\* p.isEqualNode(node), node = Null for a call without a node.
IsEqualPI ==
  /\ \E p \in 1..Len(piNodes), node \in 0..Len(piNodes) :
       piCall' = <<[op |-> "isEqualNode", p |-> p, deep |-> FALSE,
                    node |-> node,
                    res |-> isEqualNode(piNodes[p],
                                        IF node = Null THEN None
                                        ELSE Some(piNodes[node]))]>>
  /\ UNCHANGED <<treeVars, call, fedVars, nameCall, jsonCall, piNodes>>

\* ------------------------------------------------------------------------
\* Specification
\* ------------------------------------------------------------------------
Init ==
  /\ TreeInit
  /\ call = <<>>
  /\ stack = <<>>
  /\ visited = <<>>
  /\ pending = "none"
  /\ fedRoot = Null
  /\ nameCall = <<>>
  /\ jsonCall = <<>>
  /\ piNodes = <<>>
  /\ piCall = <<>>

Next ==
  \/ CallTreePosition
  \/ CallIsPreceding
  \/ CallIsFollowing
  \/ CallIsDescendantOf
  \/ CallIsAncestorOf
  \/ FEDCall
  \/ FEDVisit
  \/ FEDExhaust
  \/ FEDPropagate

Spec == Init /\ [][Next]_vars

\* The utilities and the writer that take no node are called with no tree
\* built: every node is childless.
InitNoTree ==
  /\ childNodes = [n \in Nodes |-> <<>>]
  /\ ownerDocument = [n \in Nodes |-> IF n \in Docs THEN Null ELSE 1]
  /\ call = <<>>
  /\ stack = <<>>
  /\ visited = <<>>
  /\ pending = "none"
  /\ fedRoot = Null
  /\ nameCall = <<>>
  /\ jsonCall = <<>>
  /\ piNodes = <<>>
  /\ piCall = <<>>

NextNames == CallExtractNames

SpecNames == InitNoTree /\ [][NextNames]_vars

NextJSON == CallSerialize

SpecJSON == InitNoTree /\ [][NextJSON]_vars

NextPI == NewPI \/ ClonePI \/ IsEqualPI

SpecPI == InitNoTree /\ [][NextPI]_vars

\* ------------------------------------------------------------------------
\* Tree order, stated from the shape of the tree alone
\* ------------------------------------------------------------------------
HasParent(n) ==
  \E p \in Nodes : \E i \in 1..Len(childNodes[p]) : childNodes[p][i] = n

ParentOf(n) ==
  IF HasParent(n)
  THEN CHOOSE p \in Nodes : \E i \in 1..Len(childNodes[p]) : childNodes[p][i] = n
  ELSE Null

IndexIn(p, n) == CHOOSE i \in 1..Len(childNodes[p]) : childNodes[p][i] = n

RECURSIVE AncestorsOf(_)
AncestorsOf(n) ==
  LET p == ParentOf(n) IN IF p = Null THEN {} ELSE {p} \cup AncestorsOf(p)

DescendantsOf(r) == {n \in Nodes : r \in AncestorsOf(n)}

RECURSIVE TreeRoot(_)
TreeRoot(n) == LET p == ParentOf(n) IN IF p = Null THEN n ELSE TreeRoot(p)

\* The child indexes on the way from the root of n's tree down to n.
RECURSIVE PathOf(_)
PathOf(n) ==
  LET p == ParentOf(n)
  IN IF p = Null THEN <<>> ELSE Append(PathOf(p), IndexIn(p, n))

\* p comes before q in the lexicographic order of paths; a proper prefix
\* (an ancestor) comes first.
PathLess(p, q) ==
  \E k \in 0..Len(p) :
    /\ k <= Len(q)
    /\ \A j \in 1..k : p[j] = q[j]
    /\ \/ k = Len(p) /\ k < Len(q)
       \/ k < Len(p) /\ k < Len(q) /\ p[k + 1] < q[k + 1]

\* u comes before v in preorder (tree order) of the tree both are in.
TreeBefore(u, v) == TreeRoot(u) = TreeRoot(v) /\ PathLess(PathOf(u), PathOf(v))

\* 1 + the number of descendants of root a preorder walk visits before n.
PreorderIndex(root, n) ==
  1 + Cardinality({u \in DescendantsOf(root) : TreeBefore(u, n)})

\* The descendants of root in preorder: they are in one tree, so the order of
\* their paths is tree order.
PreorderSeq(root) ==
  LET desc == DescendantsOf(root)
      path == [n \in desc |-> PathOf(n)]
      rank == [n \in desc |->
                 Cardinality({u \in desc : PathLess(path[u], path[n])})]
  IN [i \in 1..Cardinality(desc) |-> CHOOSE n \in desc : rank[n] = i - 1]

Called(name) == call # <<>> /\ call[1].op = name

\* ------------------------------------------------------------------------
\* C1: treePosition(root, n) is the 1-based preorder index of n among the
\* descendants of root, and -1 exactly when n is not a descendant of root
\* (root null included).
\* ------------------------------------------------------------------------
C1_TreePositionIsPreorderIndex ==
  Called("treePosition") =>
    call[1].res = IF call[1].a # Null /\ call[1].b \in DescendantsOf(call[1].a)
                  THEN PreorderIndex(call[1].a, call[1].b)
                  ELSE -1

\* ------------------------------------------------------------------------
\* C2: for two descendants of the same owner document, isPreceding(node,
\* other) holds exactly when other comes before node in preorder, and
\* isFollowing(node, other) exactly when other comes after node.
\* ------------------------------------------------------------------------
UnderSameDocument(a, b) ==
  /\ ownerDocument[a] # Null
  /\ ownerDocument[a] = ownerDocument[b]
  /\ a \in DescendantsOf(ownerDocument[a])
  /\ b \in DescendantsOf(ownerDocument[b])

C2_PrecedingFollowingAreTreeOrder ==
  /\ (Called("isPreceding") /\ UnderSameDocument(call[1].a, call[1].b)) =>
       call[1].res = TreeBefore(call[1].b, call[1].a)
  /\ (Called("isFollowing") /\ UnderSameDocument(call[1].a, call[1].b)) =>
       call[1].res = TreeBefore(call[1].a, call[1].b)

\* ------------------------------------------------------------------------
\* C3: when a and b are in different trees (different owner documents, or one
\* of them not attached under its owner document), isPreceding(a, b) and
\* isFollowing(a, b) are both false.
\* ------------------------------------------------------------------------
InDifferentTrees(a, b) ==
  \/ ownerDocument[a] # ownerDocument[b]
  \/ a \notin DescendantsOf(ownerDocument[a])
  \/ b \notin DescendantsOf(ownerDocument[b])

C3_DifferentTreesAreUnordered ==
  ((Called("isPreceding") \/ Called("isFollowing"))
     /\ InDifferentTrees(call[1].a, call[1].b)) => call[1].res = FALSE

\* ------------------------------------------------------------------------
\* C4: for a and b in the same tree, isPreceding(a, b) = isFollowing(b, a).
\* ------------------------------------------------------------------------
C4_PrecedingMirrorsFollowing ==
  (Called("isPreceding") /\ TreeRoot(call[1].a) = TreeRoot(call[1].b)) =>
    call[1].res = isFollowing(call[1].b, call[1].a)

\* isPreceding has been called on two different nodes attached under the same
\* document, one of them below the top level.
C4_Witness ==
  /\ Called("isPreceding")
  /\ call[1].a # call[1].b
  /\ UnderSameDocument(call[1].a, call[1].b)
  /\ Len(PathOf(call[1].b)) >= 2
  /\ call[1].res = isFollowing(call[1].b, call[1].a)

\* ------------------------------------------------------------------------
\* C5: forEachDescendant(node, visit) calls visit on the descendants of node,
\* never on node, in preorder; once a call is truthy nothing more is visited
\* and that value is returned; with no truthy call every descendant is
\* visited exactly once and the result is undefined.
\* ------------------------------------------------------------------------
FEDDone == fedRoot # Null /\ stack = <<>>

C5_ForEachDescendantShortCircuits ==
  fedRoot # Null =>
    LET order == PreorderSeq(fedRoot)
        cut == visited # <<>> /\ Truthy(visited[Len(visited)].res)
    IN /\ Len(visited) <= Len(order)
       /\ \A i \in 1..Len(visited) :
            /\ visited[i].node = order[i]
            /\ visited[i].node # fedRoot
            /\ i < Len(visited) => ~Truthy(visited[i].res)
       /\ cut => pending = visited[Len(visited)].res
       /\ FEDDone =>
            IF cut
            THEN pending = visited[Len(visited)].res
            ELSE pending = "undefined" /\ Len(visited) = Len(order)

\* A traversal of three or more descendants was cut short by a truthy result
\* at its second visit, inside a subtree.
C5_Witness ==
  /\ FEDDone
  /\ Cardinality(DescendantsOf(fedRoot)) >= 3
  /\ Len(visited) = 2
  /\ Truthy(pending)
  /\ ParentOf(visited[2].node) = visited[1].node

\* ------------------------------------------------------------------------
\* C6: isDescendantOf(node, other) holds exactly when other is in the subtree
\* below node, at any depth (never for node itself), and isAncestorOf(node,
\* other) = isDescendantOf(other, node).
\* ------------------------------------------------------------------------
C6_DescendantAncestor ==
  /\ Called("isDescendantOf") =>
       /\ call[1].res = (call[1].b \in DescendantsOf(call[1].a))
       /\ call[1].a = call[1].b => call[1].res = FALSE
  /\ Called("isAncestorOf") =>
       /\ call[1].res = isDescendantOf(call[1].b, call[1].a)
       /\ call[1].res = (call[1].a \in DescendantsOf(call[1].b))

\* isDescendantOf found a node two levels or more below the first argument.
C6_Witness ==
  /\ Called("isDescendantOf")
  /\ call[1].res = TRUE
  /\ ParentOf(call[1].b) # call[1].a

\* ------------------------------------------------------------------------
\* C7: for a qualified name that passes validateQName, extractNames fails
\* with NamespaceError exactly when (a) there is a prefix and the namespace
\* is null or empty, (b) the prefix is "xml" and the namespace is not the XML
\* namespace, (c) the prefix or the whole name is "xmlns" and the namespace
\* is not the XMLNS namespace, or (d) the namespace is the XMLNS namespace
\* and neither the prefix nor the whole name is "xmlns"; otherwise it returns
\* without error.
\* ------------------------------------------------------------------------
HasColon(q) == \E k \in 1..Len(q) : q[k] = ":"
\* The text before the first colon of q.
BeforeColon(q) ==
  LET k == CHOOSE k \in 1..Len(q) : q[k] = ":" /\ \A j \in 1..(k - 1) : q[j] # ":"
  IN SubSeq(q, 1, k - 1)
PrefixIs(q, word) == HasColon(q) /\ BeforeColon(q) = <<word>>

MustFail(ns, q) ==
  \/ HasColon(q) /\ ns \in {None, Some(<<>>)}
  \/ PrefixIs(q, "xml") /\ ns # Some(XML)
  \/ (PrefixIs(q, "xmlns") \/ q = <<"xmlns">>) /\ ns # Some(XMLNS)
  \/ ns = Some(XMLNS) /\ ~(PrefixIs(q, "xmlns") \/ q = <<"xmlns">>)

C7_ExtractNamesNamespaceErrors ==
  (nameCall # <<>> /\ validateQName(nameCall[1].qualifiedName) = "ok") =>
    LET ns == nameCall[1].namespace
        q == nameCall[1].qualifiedName
        res == nameCall[1].res
    IN /\ res.error = (IF MustFail(ns, q) THEN "NamespaceError" ELSE "none")
       /\ (ns = None /\ q = <<"xmlns">>) => res.error = "NamespaceError"
       /\ (ns = None /\ q = <<"p", ":", "local">>) => res.error = "NamespaceError"
       /\ (ns = Some(XMLNS) /\ q = <<"xmlns">>) => res.error = "none"
       /\ (ns = Some(XML) /\ q = <<"xml", ":", "lang">>) => res.error = "none"

\* extractNames(null, "xmlns") has failed with NamespaceError.
C7_Witness ==
  /\ nameCall # <<>>
  /\ nameCall[1].namespace = None
  /\ nameCall[1].qualifiedName = <<"xmlns">>
  /\ nameCall[1].res.error = "NamespaceError"

\* ------------------------------------------------------------------------
\* The lines of a rendering, read off the text
\* ------------------------------------------------------------------------
Serialized == jsonCall # <<>>

\* The text m has the text w at position p.
HasAt(m, p, w) ==
  /\ p + Len(w) - 1 <= Len(m)
  /\ \A j \in 1..Len(w) : m[p + j - 1] = w[j]

\* The positions at which a line of m starts: the first one, and the one
\* after each newline string.
LineStarts(m, newline) ==
  {1} \cup {p + Len(newline) : p \in {q \in 1..Len(m) : HasAt(m, q, newline)}}

\* How many times the indent string is repeated in m from position p on.
RECURSIVE IndentsAt(_, _, _)
IndentsAt(m, p, indent) ==
  IF HasAt(m, p, indent) THEN 1 + IndentsAt(m, p + Len(indent), indent) ELSE 0

\* The number of brackets and braces open before position p of m.
OpenBefore(m, p) ==
  Cardinality({j \in 1..(p - 1) : m[j] \in {"[", "{"}})
    - Cardinality({j \in 1..(p - 1) : m[j] \in {"]", "}"}})

\* The nesting level of the line of m that starts at p: a line that closes a
\* sequence or a map is at the level of what it closes.
LineLevel(m, p, indent) ==
  LET first == p + Len(indent) * IndentsAt(m, p, indent)
  IN IF first <= Len(m) /\ m[first] \in {"]", "}"}
     THEN OpenBefore(m, p) - 1
     ELSE OpenBefore(m, p)

Max(x, y) == IF x >= y THEN x ELSE y

\* ------------------------------------------------------------------------
\* C8 as claimed: with prettyPrint on, every line started at nesting level L,
\* the first line at level 0 included, begins with the indent string repeated
\* exactly offset + L + 1 times.
\* ------------------------------------------------------------------------
C8_IndentIsOffsetLevelPlusOne ==
  (Serialized /\ jsonCall[1].options.prettyPrint) =>
    LET o == jsonCall[1].options
        m == jsonCall[1].markup
    IN \A p \in LineStarts(m, o.newline) :
         IndentsAt(m, p, o.indent) = o.offset + LineLevel(m, p, o.indent) + 1

\* ------------------------------------------------------------------------
\* C8 amended: with prettyPrint on, every line started at nesting level L,
\* the first line at level 0 included, begins with the indent string repeated
\* exactly offset + L times, and not at all when offset + L is negative.
\* ------------------------------------------------------------------------
C8_IndentIsOffsetPlusLevel ==
  (Serialized /\ jsonCall[1].options.prettyPrint) =>
    LET o == jsonCall[1].options
        m == jsonCall[1].markup
    IN \A p \in LineStarts(m, o.newline) :
         IndentsAt(m, p, o.indent) =
           Max(o.offset + LineLevel(m, p, o.indent), 0)

\* A pretty-printed rendering with offset 1 has a line at nesting level 2,
\* which begins with three indent strings.
C8_Witness ==
  /\ Serialized
  /\ jsonCall[1].options.prettyPrint
  /\ jsonCall[1].options.offset = 1
  /\ \E p \in LineStarts(jsonCall[1].markup, jsonCall[1].options.newline) :
       /\ p > 1
       /\ LineLevel(jsonCall[1].markup, p, jsonCall[1].options.indent) = 2
       /\ IndentsAt(jsonCall[1].markup, p, jsonCall[1].options.indent) = 3

\* ------------------------------------------------------------------------
\* C9: a value is treated as a leaf node exactly when its subtree holds at
\* most one scalar, whatever the order of its entries and whatever empty maps
\* or sequences it contains.
\* ------------------------------------------------------------------------
RECURSIVE ScalarCount(_), ScalarCountOfItems(_, _)
\* The number of strings in the subtree of obj.
ScalarCount(obj) ==
  IF obj.kind = "str" THEN 1 ELSE ScalarCountOfItems(obj.items, 1)
ScalarCountOfItems(items, i) ==
  IF i > Len(items) THEN 0
  ELSE ScalarCount(items[i]) + ScalarCountOfItems(items, i + 1)

C9_LeafIffAtMostOneScalar ==
  Serialized => (isLeafNode(jsonCall[1].obj) = (ScalarCount(jsonCall[1].obj) <= 1))

\* ------------------------------------------------------------------------
\* C10 as claimed: with prettyPrint true and offset 0 the map {"a":"1"} is
\* rendered as the one line { "a":"1" }.
\* ------------------------------------------------------------------------
MapA1 == Map(<<"a">>, <<Str(<<"1">>)>>)

SerializedMapA1 ==
  /\ Serialized
  /\ jsonCall[1].obj = MapA1
  /\ jsonCall[1].options.prettyPrint
  /\ jsonCall[1].options.offset = 0

C10_LeafMapWithoutSpaceAfterColon ==
  SerializedMapA1 =>
    jsonCall[1].markup =
      <<"{", " ", "\"", "a", "\"", ":", "\"", "1", "\"", " ", "}">>

\* ------------------------------------------------------------------------
\* C10 amended: with prettyPrint true and offset 0 the map {"a":"1"} is
\* rendered as the one line { "a": "1" }, with a space after the colon.
\* ------------------------------------------------------------------------
C10_LeafMapOnOneLine ==
  SerializedMapA1 =>
    jsonCall[1].markup =
      <<"{", " ", "\"", "a", "\"", ":", " ", "\"", "1", "\"", " ", "}">>

\* The map {"a":"1"} has been rendered with prettyPrint true and offset 0.
C10_Witness ==
  /\ SerializedMapA1
  /\ Len(jsonCall[1].markup) = 12

\* ------------------------------------------------------------------------
\* C11: with prettyPrint true, the rendering of a map that is classified as a
\* leaf node is a single line: no newline string occurs between its opening
\* and its closing brace, whatever the map contains.
\* ------------------------------------------------------------------------
C11_LeafMapIsOneLine ==
  (/\ Serialized
   /\ jsonCall[1].options.prettyPrint
   /\ isMap(jsonCall[1].obj)
   /\ isLeafNode(jsonCall[1].obj)) =>
    \A p \in 1..Len(jsonCall[1].markup) :
      ~HasAt(jsonCall[1].markup, p, jsonCall[1].options.newline)

\* ------------------------------------------------------------------------
\* C12: with prettyPrint false no indent string, newline string or separating
\* space is written: the output is the same for every choice of indent,
\* newline and offset, and is made only of brackets, braces, commas, "key":
\* prefixes and quoted scalars in the order of the value.
\* ------------------------------------------------------------------------
RECURSIVE Compact(_), CompactItems(_, _)
\* The text of obj without any white space.
Compact(obj) ==
  IF obj.kind = "str" THEN <<"\"">> \o obj.str \o <<"\"">>
  ELSE IF obj.kind = "array" THEN <<"[">> \o CompactItems(obj, 1) \o <<"]">>
  ELSE <<"{">> \o CompactItems(obj, 1) \o <<"}">>
\* The items of obj from the i-th on, each map item after its key, with
\* commas between them.
CompactItems(obj, i) ==
  IF i > Len(obj.items) THEN <<>>
  ELSE (IF i > 1 THEN <<",">> ELSE <<>>)
         \o (IF obj.kind = "map" THEN <<"\"", obj.keys[i], "\"", ":">> ELSE <<>>)
         \o Compact(obj.items[i])
         \o CompactItems(obj, i + 1)

WhiteSpace == {" ", "\t", "\n", "\r"}

C12_NoWhiteSpaceWithoutPrettyPrint ==
  (Serialized /\ ~jsonCall[1].options.prettyPrint) =>
    /\ jsonCall[1].markup = Compact(jsonCall[1].obj)
    /\ \A i \in 1..Len(jsonCall[1].markup) : jsonCall[1].markup[i] \notin WhiteSpace
    /\ \A o \in OptionSets :
         ~o.prettyPrint => serialize(jsonCall[1].obj, o) = jsonCall[1].markup

\* A sequence that holds a map with an entry has been rendered without
\* prettyPrint and with offset 1.
C12_Witness ==
  /\ Serialized
  /\ ~jsonCall[1].options.prettyPrint
  /\ jsonCall[1].options.offset = 1
  /\ isArray(jsonCall[1].obj)
  /\ \E i \in 1..Len(jsonCall[1].obj.items) :
       /\ isMap(jsonCall[1].obj.items[i])
       /\ jsonCall[1].obj.items[i].items # <<>>
  /\ jsonCall[1].markup = Compact(jsonCall[1].obj)

\* ------------------------------------------------------------------------
\* C13: _descendantCount(v), called with no starting count, is the number of
\* scalars in the subtree of v: 1 for a scalar, the sum over the children for
\* a map or a sequence.
\* ------------------------------------------------------------------------
C13_DescendantCountIsScalarCount ==
  Serialized => descendantCount(jsonCall[1].obj, 0) = ScalarCount(jsonCall[1].obj)

\* ------------------------------------------------------------------------
\* C14: p.cloneNode(deep) returns a new node, distinct from p, with the
\* target, data and owner document of p, and p.isEqualNode of it is true, for
\* either value of deep; isEqualNode is false when no node is given and when
\* the target of the other node differs from that of p.
\* ------------------------------------------------------------------------
CalledPI(name) == piCall # <<>> /\ piCall[1].op = name

C14_CloneIsEqualAndDistinct ==
  /\ CalledPI("cloneNode") =>
       LET p == piCall[1].p
           r == piCall[1].res
       IN /\ r \in 1..Len(piNodes)
          /\ r # p
          /\ piNodes[r].target = piNodes[p].target
          /\ piNodes[r].data = piNodes[p].data
          /\ piNodes[r].ownerDocument = piNodes[p].ownerDocument
          /\ isEqualNode(piNodes[p], Some(piNodes[r]))
  /\ CalledPI("isEqualNode") =>
       /\ piCall[1].node = Null => piCall[1].res = FALSE
       /\ (piCall[1].node # Null /\
             piNodes[piCall[1].node].target # piNodes[piCall[1].p].target) =>
            piCall[1].res = FALSE

\* A processing instruction that has data and an owner document has been
\* cloned with deep true.
C14_Witness ==
  /\ CalledPI("cloneNode")
  /\ piCall[1].deep
  /\ piNodes[piCall[1].p].data # None
  /\ piNodes[piCall[1].p].ownerDocument # Null
  /\ piNodes[piCall[1].res] = piNodes[piCall[1].p]

====
